---------------------------- MODULE Spec2Model ----------------------------
(***************************************************************************)
(* Model of interactive_functions: the parameter-bound vectorised curves   *)
(* (base.py, power_law_decay.py, log_growth.py, dispersal_kernels.py).     *)
(*                                                                         *)
(* float64 is modelled by a small binary floating-point format: a value is *)
(* NaN, +inf, -inf, zero, or s * m * 2^e with s in {-1, 1}, m in {1, 1.5}   *)
(* and -EMax <= e <= EMax (two significant bits).  The IEEE operations     *)
(* round to the nearest representable value, overflow to an infinity and   *)
(* underflow to zero.  pow, which comes from the platform's C library, is   *)
(* exact where the result is representable and otherwise returns one of    *)
(* the two neighbouring values; which one depends on the build (libm).     *)
(* The sign of zero is not kept.                                           *)
(***************************************************************************)
EXTENDS Integers, Sequences, FiniteSets, TLC

\* Largest binary exponent of a finite float (float64: 1023).
EMax == 3

\* Longest input array the model draws.
MaxLen == 2

\* Widget-like holders and bound-function instances alive at once.
NumHolders == 2

NumInsts == 2

\* The number of call sites that evaluate one bound function concurrently.
NumSites == 2

\* Largest precision params_str is asked for.
MaxPrecision == 2

-----------------------------------------------------------------------------
(* float64 values *)

NaN == [c |-> "nan", s |-> 1, m |-> 2, e |-> 0]

Zero == [c |-> "zero", s |-> 1, m |-> 2, e |-> 0]

Inf(sg) == [c |-> "inf", s |-> sg, m |-> 2, e |-> 0]

\* s * (mt / 2) * 2^ex with mt in {2, 3}, put into the format: overflow gives
\* inf, underflow zero.
Float(sg, mt, ex) ==
    IF ex > EMax THEN Inf(sg)
    ELSE IF ex < -EMax THEN Zero
    ELSE [c |-> "fin", s |-> sg, m |-> mt, e |-> ex]

\* s * 2^ex
Fin(sg, ex) == Float(sg, 2, ex)

\* s * 1.5 * 2^ex
Fin3(sg, ex) == Float(sg, 3, ex)

One == Fin(1, 0)

IsNaN(x) == x.c = "nan"

IsInf(x) == x.c = "inf"

IsFinite(x) == x.c \in {"zero", "fin"}

\* x > 0.0, x <= 0.0, x != 0.0 as float comparisons: every comparison with
\* NaN is False except !=.
\* x >= 0.0
Ge0(x) == x.c = "zero" \/ (x.c \in {"fin", "inf"} /\ x.s = 1)

Gt0(x) == x.c \in {"fin", "inf"} /\ x.s = 1

\* x < 0.0
Lt0(x) == x.c \in {"fin", "inf"} /\ x.s = -1

Le0(x) == x.c = "zero" \/ (x.c \in {"fin", "inf"} /\ x.s = -1)

Ne0(x) == x.c # "zero"

\* x <= 1.0
Le1(x) == Le0(x) \/ (x.c = "fin" /\ (x.e < 0 \/ (x.e = 0 /\ x.m = 2)))

Pow2(k) == 2 ^ k

\* The finite values are the integer multiples Scaled(x) / Unit.
Unit == Pow2(EMax + 1)

\* n / d rounded to the nearest integer (n >= 0, d > 0), halves up.
RoundDiv(n, d) == (2 * n + d) \div (2 * d)

RECURSIVE FloorLog2(_, _)
\* The f with 2^f <= n / d < 2^(f + 1) (n > 0, d > 0).
FloorLog2(n, d) ==
    IF n >= 2 * d THEN FloorLog2(n, 2 * d) + 1
    ELSE IF n < d THEN FloorLog2(2 * n, d) - 1
    ELSE 0

\* sg * n / d (n >= 0, d > 0) rounded to the nearest value of the format,
\* ties to the even significand.
Round(sg, n, d) ==
    IF n = 0 THEN Zero
    ELSE LET f == FloorLog2(n, d)
             nn == IF f < 0 THEN n * Pow2(-f) ELSE n
             dd == IF f > 0 THEN d * Pow2(f) ELSE d
         IN  IF 4 * nn <= 5 * dd THEN Float(sg, 2, f)
             ELSE IF 4 * nn < 7 * dd THEN Float(sg, 3, f)
             ELSE Float(sg, 2, f + 1)

\* sg * 2^(y / d) (d > 0) rounded to the nearest value of the format:
\* log2(1.25) = 0.322, log2(1.75) = 0.807.
RoundExp2(sg, y, d) ==
    LET k == y \div d
        g == y - k * d
    IN  IF 1000 * g <= 322 * d THEN Float(sg, 2, k)
        ELSE IF 1000 * g < 807 * d THEN Float(sg, 3, k)
        ELSE Float(sg, 2, k + 1)

\* 1000 * log2 of the magnitude of a finite nonzero value: log2(1.5) = 0.585.
Log2Milli(x) == 1000 * x.e + (IF x.m = 3 THEN 585 ELSE 0)

\* A finite value as an integer multiple of 1 / Unit.
Scaled(x) == IF x.c = "zero" THEN 0 ELSE x.s * x.m * Pow2(x.e + EMax)

Abs(n) == IF n < 0 THEN -n ELSE n

Neg(x) == IF x.c \in {"fin", "inf"} THEN [x EXCEPT !.s = -x.s] ELSE x

\* x + y
Add(x, y) ==
    IF IsNaN(x) \/ IsNaN(y) THEN NaN
    ELSE IF IsInf(x) /\ IsInf(y) THEN (IF x.s = y.s THEN x ELSE NaN)
    ELSE IF IsInf(x) THEN x
    ELSE IF IsInf(y) THEN y
    ELSE LET t == Scaled(x) + Scaled(y)
         IN  Round(IF t < 0 THEN -1 ELSE 1, Abs(t), Unit)

\* x * y
Mul(x, y) ==
    IF IsNaN(x) \/ IsNaN(y) THEN NaN
    ELSE IF IsInf(x) \/ IsInf(y)
         THEN (IF x.c = "zero" \/ y.c = "zero" THEN NaN ELSE Inf(x.s * y.s))
    ELSE IF x.c = "zero" \/ y.c = "zero" THEN Zero
    ELSE Round(x.s * y.s, Abs(Scaled(x)) * Abs(Scaled(y)), Unit * Unit)

\* x / y
Div(x, y) ==
    IF IsNaN(x) \/ IsNaN(y) THEN NaN
    ELSE IF IsInf(x) THEN (IF IsInf(y) THEN NaN ELSE Inf(x.s * y.s))
    ELSE IF IsInf(y) THEN Zero
    ELSE IF y.c = "zero" THEN (IF x.c = "zero" THEN NaN ELSE Inf(x.s))
    ELSE IF x.c = "zero" THEN Zero
    ELSE Round(x.s * y.s, Abs(Scaled(x)), Abs(Scaled(y)))

\* np.square
np_square(x) == Mul(x, x)

\* np.exp: e^x = 2^(x * log2(e)), log2(e) = 1.443
np_exp(x) ==
    IF IsNaN(x) THEN NaN
    ELSE IF x.c = "zero" THEN One
    ELSE IF IsInf(x) THEN (IF x.s = 1 THEN x ELSE Zero)
    ELSE RoundExp2(1, 1443 * Scaled(x), 1000 * Unit)

\* np.log: ln(x) = log2(x) * ln(2), ln(2) = 0.693
np_log(x) ==
    IF IsNaN(x) THEN NaN
    ELSE IF x.c = "zero" THEN Inf(-1)
    ELSE IF x.s = -1 THEN NaN
    ELSE IF IsInf(x) THEN x
    ELSE LET l == Log2Milli(x)
         IN  Round(IF l < 0 THEN -1 ELSE 1, 693 * Abs(l), 1000000)

\* Whether a finite nonzero float is an integer, and an odd one.
IsInteger(p) == p.c = "fin" /\ (p.e >= 1 \/ (p.e = 0 /\ p.m = 2))

IsOdd(p) == p.c = "fin" /\ ((p.e = 0 /\ p.m = 2) \/ (p.e = 1 /\ p.m = 3))

\* The C library the interpreter is built against; it supplies pow.
VARIABLE libm

\* A pow that rounds every result to the nearest value, and one that is only
\* faithful: an inexact result may be the neighbour on the other side.
LibmModes == {"nearest", "faithful"}

\* sg * 2^(y / d) (d > 0) as pow returns it.  The result is representable
\* when y / d is an integer or an integer plus log2(1.5).
PowExp2(sg, y, d) ==
    LET k == y \div d
        g == y - k * d
    IN  IF libm = "nearest" \/ g = 0 \/ 1000 * g = 585 * d
        THEN RoundExp2(sg, y, d)
        ELSE IF 1000 * g < 585 * d
             THEN (IF 1000 * g <= 322 * d THEN Float(sg, 3, k)
                   ELSE Float(sg, 2, k))
        ELSE IF 1000 * g < 807 * d THEN Float(sg, 2, k + 1)
        ELSE Float(sg, 3, k)

\* np.power (C pow): |b|^p = 2^(p * log2|b|)
np_power(b, p) ==
    IF p.c = "zero" THEN One
    ELSE IF b = One THEN One
    ELSE IF IsNaN(b) \/ IsNaN(p) THEN NaN
    ELSE IF b.c = "zero" THEN (IF p.s = 1 THEN Zero ELSE Inf(1))
    ELSE IF IsInf(p)
         THEN (IF b.c = "fin" /\ b.e = 0 /\ b.m = 2 THEN One
               ELSE IF (b.c = "fin" /\ b.e < 0) = (p.s = 1) THEN Zero
               ELSE Inf(1))
    ELSE IF IsInf(b)
         THEN (IF p.s = -1 THEN Zero
               ELSE IF b.s = -1 /\ IsOdd(p) THEN Inf(-1)
               ELSE Inf(1))
    ELSE IF b.s = -1 /\ ~IsInteger(p) THEN NaN
    ELSE PowExp2(IF b.s = -1 /\ IsOdd(p) THEN -1 ELSE 1,
                 Scaled(p) * Log2Milli(b), 1000 * Unit)

-----------------------------------------------------------------------------
(* Python values handed to the library *)

\* A Python float (or an int that fits a float) holding f.
Num(f) == [t |-> "num", f |-> f]

\* An int too large for a float, e.g. 10**400.
BigInt == [t |-> "bigint"]

Str(s) == [t |-> "str", s |-> s]

None == [t |-> "none"]

\* An object with neither a .value attribute nor a float conversion.
Obj == [t |-> "object"]

\* A widget-like holder: an object whose .value attribute is read on demand.
Holder(h) == [t |-> "holder", h |-> h]

List(items) == [t |-> "list", items |-> items]

\* type(v), as the error message prints it.
TypeOf(v) ==
    CASE v.t = "num" -> "float"
      [] v.t = "bigint" -> "int"
      [] v.t = "str" -> "str"
      [] v.t = "none" -> "NoneType"
      [] v.t = "object" -> "object"
      [] v.t = "holder" -> "Slider"
      [] v.t = "list" -> "list"
      [] v.t = "ndarray" -> "ndarray"

\* The outcome of a call: a returned value or a raised exception.  wrote is
\* the set of buffers the call stored into through an out= argument; filled
\* tells that the value is the array _full_nan_like built.
Ok(v) == [ok |-> TRUE, val |-> v, wrote |-> {}, filled |-> FALSE]

OkWrote(v, bufs) == [ok |-> TRUE, val |-> v, wrote |-> bufs, filled |-> FALSE]

OkFilled(v) == [ok |-> TRUE, val |-> v, wrote |-> {}, filled |-> TRUE]

Raise(exc, about) == [ok |-> FALSE, exc |-> exc, about |-> about]

\* The text literals float() parses, with their values.
StrTable ==
    ("1" :> One) @@ ("2" :> Fin(1, 1)) @@ ("0.5" :> Fin(1, -1)) @@
    ("-1" :> Fin(-1, 0)) @@ ("0" :> Zero) @@ ("nan" :> NaN) @@ ("inf" :> Inf(1))

\* Python's float(raw)
float(raw) ==
    CASE raw.t = "num" -> Ok(raw.f)
      [] raw.t = "bigint" -> Raise("OverflowError", TypeOf(raw))
      [] raw.t = "str" -> IF raw.s \in DOMAIN StrTable THEN Ok(StrTable[raw.s])
                          ELSE Raise("ValueError", TypeOf(raw))
      [] OTHER -> Raise("TypeError", TypeOf(raw))

\* getattr(v, "value", v): env maps each holder to its current .value
getattr_value(v, env) == IF v.t = "holder" THEN env[v.h] ELSE v

\* base._value
value(v, env) ==
    LET raw == getattr_value(v, env)
        r == float(raw)
    IN  IF r.ok THEN r
        ELSE IF r.exc \in {"TypeError", "ValueError"} THEN Raise("TypeError", TypeOf(v))
        ELSE r

-----------------------------------------------------------------------------
(* numpy arrays: dim is 0 for a scalar's array and 1 for a sequence's; buf   *)
(* names the memory the array occupies: "caller" for an array the caller    *)
(* owns, "fresh" for one allocated during the call.                         *)

NdArray(dim, data, buf) == [dim |-> dim, data |-> data, buf |-> buf]

\* A float64 array the caller built (np.linspace, np.array) and passes in.
NdIn(data) == [t |-> "ndarray", arr |-> NdArray(1, data, "caller")]

\* One element of an array-like converted to float64: None becomes nan.
ItemFloat(raw) == IF raw.t = "none" THEN Ok(NaN) ELSE float(raw)

\* np.asarray(x, dtype=float): a float64 array is returned as it is, with
\* no copy; anything else is converted into a new array.
asarray(x) ==
    IF x.t = "ndarray" THEN Ok(x.arr)
    ELSE IF x.t = "list"
    THEN LET conv == [i \in DOMAIN x.items |-> ItemFloat(x.items[i])]
             bad == {i \in DOMAIN conv : ~conv[i].ok}
         IN  IF bad = {} THEN Ok(NdArray(1, [i \in DOMAIN conv |-> conv[i].val], "fresh"))
             ELSE conv[CHOOSE i \in bad : \A j \in bad : i <= j]
    ELSE LET r == ItemFloat(x)
         IN  IF r.ok THEN Ok(NdArray(0, <<r.val>>, "fresh")) ELSE r

\* The result of an elementwise numpy operation over the positions of arr:
\* a newly allocated array of the same shape.
Elementwise(arr, F(_)) == NdArray(arr.dim, [i \in DOMAIN arr.data |-> F(i)], "fresh")

\* A fill that returns one NaN whatever the shape of x
full_nan_scalar(x) ==
    LET x_arr == asarray(x)
    IN  IF ~x_arr.ok THEN x_arr ELSE OkFilled(NdArray(0, <<NaN>>, "fresh"))

\* dispersal_kernels._full_nan_like
full_nan_like(x) ==
    LET x_arr == asarray(x)
    IN  IF ~x_arr.ok THEN x_arr
        ELSE LET arr == x_arr.val IN OkFilled(Elementwise(arr, LAMBDA i : NaN))

-----------------------------------------------------------------------------
(* the seven curve functions *)

power_law_decay(x, a, p, b) ==
    LET x_arr == asarray(x)
    IN  IF ~x_arr.ok THEN x_arr
        ELSE LET arr == x_arr.val
                 domain(i) == Add(arr.data[i], b)
                 y(i) == Mul(a, np_power(domain(i), Neg(p)))
             IN  Ok(Elementwise(arr, LAMBDA i : IF Gt0(domain(i)) THEN y(i) ELSE NaN))

log_growth(x, a, b) ==
    LET x_arr == asarray(x)
    IN  IF ~x_arr.ok THEN x_arr
        ELSE LET arr == x_arr.val
                 domain(i) == Add(arr.data[i], b)
                 y(i) == Mul(a, np_log(domain(i)))
             IN  Ok(Elementwise(arr, LAMBDA i : IF Gt0(domain(i)) THEN y(i) ELSE NaN))

\* The exponential kernel normalised by its scale: exp(-r / lam) / lam
kernel_exponential_normalised(distance, lam) ==
    IF Le0(lam) THEN full_nan_like(distance)
    ELSE LET r == asarray(distance)
         IN  IF ~r.ok THEN r
             ELSE LET arr == r.val
                  IN  Ok(Elementwise(arr,
                         LAMBDA i : Div(np_exp(Div(Neg(arr.data[i]), lam)), lam)))

kernel_exponential(distance, lam) ==
    IF Le0(lam) THEN full_nan_like(distance)
    ELSE LET r == asarray(distance)
         IN  IF ~r.ok THEN r
             ELSE LET arr == r.val
                  IN  Ok(Elementwise(arr, LAMBDA i : np_exp(Div(Neg(arr.data[i]), lam))))
\* The Gaussian kernel in the form of a normal density: exp(-(r / sigma)^2 / 2)
kernel_gaussian_halved(distance, sigma) ==
    IF Le0(sigma) THEN full_nan_like(distance)
    ELSE LET r == asarray(distance)
         IN  IF ~r.ok THEN r
             ELSE LET arr == r.val
                  IN  Ok(Elementwise(arr,
                         LAMBDA i : np_exp(Neg(Div(np_square(Div(arr.data[i], sigma)),
                                                   Fin(1, 1))))))

kernel_gaussian(distance, sigma) ==
    IF Le0(sigma) THEN full_nan_like(distance)
    ELSE LET r == asarray(distance)
         IN  IF ~r.ok THEN r
             ELSE LET arr == r.val
                  IN  Ok(Elementwise(arr,
                         LAMBDA i : np_exp(Neg(np_square(Div(arr.data[i], sigma))))))

\* kernel_powerlaw without the np.where of its last statement: the positions
\* are NaN only where the power itself is
kernel_powerlaw_unmasked(distance, alpha, p) ==
    IF Le0(alpha) \/ Le0(p) THEN full_nan_like(distance)
    ELSE LET r == asarray(distance)
         IN  IF ~r.ok THEN r
             ELSE LET arr == r.val
                      base(i) == Add(One, Div(arr.data[i], alpha))
                      y(i) == np_power(base(i), Neg(p))
                  IN  Ok(Elementwise(arr, LAMBDA i : y(i)))

kernel_powerlaw(distance, alpha, p) ==
    IF Le0(alpha) \/ Le0(p) THEN full_nan_like(distance)
    ELSE LET r == asarray(distance)
         IN  IF ~r.ok THEN r
             ELSE LET arr == r.val
                      base(i) == Add(One, Div(arr.data[i], alpha))
                      y(i) == np_power(base(i), Neg(p))
                  IN  Ok(Elementwise(arr, LAMBDA i : IF Gt0(base(i)) THEN y(i) ELSE NaN))

\* kernel_rectangular_hyperbola without the np.where of its last statement
kernel_rectangular_hyperbola_unmasked(distance, alpha, p, junk) ==
    IF Le0(alpha) \/ Le0(p) THEN full_nan_like(distance)
    ELSE LET r == asarray(distance)
         IN  IF ~r.ok THEN r
             ELSE LET arr == r.val
                      ratio(i) == Div(arr.data[i], alpha)
                      denom(i) == Add(One, np_power(ratio(i), p))
                      y(i) == IF Ne0(denom(i)) THEN Div(One, denom(i)) ELSE junk[i]
                  IN  OkWrote(Elementwise(arr, LAMBDA i : y(i)), {"fresh"})

\* kernel_rectangular_hyperbola with a last statement that keeps every
\* position the division wrote: np.where(denom != 0.0, y, np.nan)
kernel_rectangular_hyperbola_nonzero(distance, alpha, p, junk) ==
    IF Le0(alpha) \/ Le0(p) THEN full_nan_like(distance)
    ELSE LET r == asarray(distance)
         IN  IF ~r.ok THEN r
             ELSE LET arr == r.val
                      ratio(i) == Div(arr.data[i], alpha)
                      denom(i) == Add(One, np_power(ratio(i), p))
                      y(i) == IF Ne0(denom(i)) THEN Div(One, denom(i)) ELSE junk[i]
                  IN  OkWrote(Elementwise(arr,
                                  LAMBDA i : IF Ne0(denom(i)) THEN y(i) ELSE NaN),
                              {"fresh"})

\* junk[i] is what the buffer of np.empty_like holds at position i before
\* np.divide writes to it: any float.
kernel_rectangular_hyperbola(distance, alpha, p, junk) ==
    IF Le0(alpha) \/ Le0(p) THEN full_nan_like(distance)
    ELSE LET r == asarray(distance)
         IN  IF ~r.ok THEN r
             ELSE LET arr == r.val
                      ratio(i) == Div(arr.data[i], alpha)
                      denom(i) == Add(One, np_power(ratio(i), p))
                      y(i) == IF Ne0(denom(i)) THEN Div(One, denom(i)) ELSE junk[i]
                  IN  OkWrote(Elementwise(arr,
                                  LAMBDA i : IF Gt0(denom(i)) THEN y(i) ELSE NaN),
                              {"fresh"})

kernel_exppower(distance, lam, q) ==
    IF Le0(lam) \/ Le0(q) THEN full_nan_like(distance)
    ELSE LET r == asarray(distance)
         IN  IF ~r.ok THEN r
             ELSE LET arr == r.val
                  IN  Ok(Elementwise(arr,
                         LAMBDA i : np_exp(Neg(np_power(Div(arr.data[i], lam), q)))))

-----------------------------------------------------------------------------
(* the seven parameter-bound classes (frozen dataclasses over BaseFunction) *)

Variants ==
    {"PowerLawDecay", "LogGrowth", "ExponentialKernel", "GaussianKernel",
     "PowerLawKernel", "RectangularHyperbolaKernel", "ExpPowerKernel"}

Kernels == Variants \ {"PowerLawDecay", "LogGrowth"}

\* The dataclass fields of each class, in declaration order.
FieldNames(cls) ==
    CASE cls = "PowerLawDecay" -> <<"a", "p", "b">>
      [] cls = "LogGrowth" -> <<"a", "b">>
      [] cls = "ExponentialKernel" -> <<"lam">>
      [] cls = "GaussianKernel" -> <<"sigma">>
      [] cls = "PowerLawKernel" -> <<"alpha", "p">>
      [] cls = "RectangularHyperbolaKernel" -> <<"alpha", "p">>
      [] cls = "ExpPowerKernel" -> <<"lam", "q">>

MATH_TEMPLATE(cls) ==
    CASE cls = "PowerLawDecay" -> "$f(x) = a \\\\cdot (x + b)^{-p}$"
      [] cls = "LogGrowth" -> "$f(x) = a \\\\cdot \\\\ln(x + b)$"
      [] cls = "ExponentialKernel" -> "$K(r) = \\exp\\!\\left(-\\dfrac{r}{\\lambda}\\right)$"
      [] cls = "GaussianKernel" ->
            "$K(r) = \\exp\\!\\left(-\\left(\\dfrac{r}{\\sigma}\\right)^2\\right)$"
      [] cls = "PowerLawKernel" -> "$K(r) = \\left(1 + \\dfrac{r}{\\alpha}\\right)^{-p}$"
      [] cls = "RectangularHyperbolaKernel" ->
            "$K(r) = \\dfrac{1}{1 + \\left(\\dfrac{r}{\\alpha}\\right)^{p}}$"
      [] cls = "ExpPowerKernel" ->
            "$K(r) = \\exp\\!\\left(-\\left(\\dfrac{r}{\\lambda}\\right)^{q}\\right)$"

\* An instance: its class and its field values, in field order.
Instance(cls, args) == [cls |-> cls, fields |-> args]

\* An __init__ that checks its arguments
dataclass_init_checked(cls, args) ==
    IF \E k \in DOMAIN args : args[k].t \notin {"num", "holder"}
    THEN Raise("TypeError", "str")
    ELSE Ok(Instance(cls, args))

\* The __init__ @dataclass generates: every argument is stored as it is given;
\* nothing is converted or checked.
dataclass_init(cls, args) == Ok(Instance(cls, args))

\* Assignment to a field of a dataclass that is not frozen
dataclass_setattr_plain(self, k, v) ==
    [obj |-> [self EXCEPT !.fields[k] = v], out |-> Ok(None)]

\* Assignment to a field of a frozen dataclass: the generated __setattr__
\* raises and the instance stays as it is.
dataclass_setattr(self, k, v) == [obj |-> self, out |-> Raise("FrozenInstanceError", k)]

\* The parameters property: the name -> value mapping, in insertion order.
parameters(self) ==
    [i \in 1..Len(FieldNames(self.cls)) |->
        [k |-> FieldNames(self.cls)[i], v |-> self.fields[i]]]

\* A call fn(x, *params.values()) on a dict kept in the alphabetical order of
\* its keys: the values reach the function by position.
fn_positional(self, x, params, junk) ==
    CASE self.cls = "PowerLawDecay" ->
            power_law_decay(x, params["a"], params["b"], params["p"])
      [] self.cls = "LogGrowth" -> log_growth(x, params["a"], params["b"])
      [] self.cls = "ExponentialKernel" -> kernel_exponential(x, params["lam"])
      [] self.cls = "GaussianKernel" -> kernel_gaussian(x, params["sigma"])
      [] self.cls = "PowerLawKernel" -> kernel_powerlaw(x, params["alpha"], params["p"])
      [] self.cls = "RectangularHyperbolaKernel" ->
            kernel_rectangular_hyperbola(x, params["alpha"], params["p"], junk)
      [] self.cls = "ExpPowerKernel" -> kernel_exppower(x, params["lam"], params["q"])

\* The fn property with the call fn(x, **params): params maps names to floats.
fn(self, x, params, junk) ==
    CASE self.cls = "PowerLawDecay" ->
            power_law_decay(x, params["a"], params["p"], params["b"])
      [] self.cls = "LogGrowth" -> log_growth(x, params["a"], params["b"])
      [] self.cls = "ExponentialKernel" -> kernel_exponential(x, params["lam"])
      [] self.cls = "GaussianKernel" -> kernel_gaussian(x, params["sigma"])
      [] self.cls = "PowerLawKernel" -> kernel_powerlaw(x, params["alpha"], params["p"])
      [] self.cls = "RectangularHyperbolaKernel" ->
            kernel_rectangular_hyperbola(x, params["alpha"], params["p"], junk)
      [] self.cls = "ExpPowerKernel" -> kernel_exppower(x, params["lam"], params["q"])

\* {k: _value(v) for k, v in self.parameters.items()}: the dict of floats, or
\* the exception of the first item whose coercion raises.
coerce_params(self, env) ==
    LET ps == parameters(self)
        vals == [i \in DOMAIN ps |-> value(ps[i].v, env)]
        bad == {i \in DOMAIN ps : ~vals[i].ok}
    IN  IF bad # {} THEN vals[CHOOSE i \in bad : \A j \in bad : i <= j]
        ELSE Ok([k \in {ps[i].k : i \in DOMAIN ps} |->
                    vals[CHOOSE i \in DOMAIN ps : ps[i].k = k].val])

\* A __call__ that converts the input before it coerces the parameters
call_input_first(self, x, env, junk) ==
    LET params == coerce_params(self, env)
    IN  IF ~asarray(x).ok THEN asarray(x)
        ELSE IF ~params.ok THEN params
        ELSE fn(self, x, params.val, junk)

\* BaseFunction.__call__
call(self, x, env, junk) ==
    LET params == coerce_params(self, env)
    IN  IF ~params.ok THEN params ELSE fn(self, x, params.val, junk)

\* A math_str that substitutes the first bound value into the template
math_str_bound(self) ==
    MATH_TEMPLATE(self.cls) \o " " \o FieldNames(self.cls)[1] \o "=" \o
        (IF self.fields[1].t = "num" THEN ToString(Scaled(self.fields[1].f)) ELSE "?")

\* BaseFunction.math_str
math_str(self) == MATH_TEMPLATE(self.cls)

\* n / d rounded to the nearest integer, halves to the even one.
RoundHalfEven(n, d) ==
    LET q == n \div d
        r == n % d
    IN  IF 2 * r > d \/ (2 * r = d /\ q % 2 = 1) THEN q + 1 ELSE q

RECURSIVE ZeroPad(_, _)
\* The decimal digits of n, padded with zeros on the left to width w.
ZeroPad(n, w) ==
    IF w <= 1 THEN ToString(n)
    ELSE IF n < 10 ^ (w - 1) THEN "0" \o ZeroPad(n, w - 1)
    ELSE ToString(n)

\* format(val, f".{precision}f")
FormatFixed(val, precision) ==
    IF IsNaN(val) THEN "nan"
    ELSE IF IsInf(val) THEN (IF val.s = 1 THEN "inf" ELSE "-inf")
    ELSE LET mag == IF Scaled(val) < 0 THEN -Scaled(val) ELSE Scaled(val)
             q == RoundHalfEven(mag * 10 ^ precision, Unit)
             whole == ToString(q \div 10 ^ precision)
             frac == IF precision = 0 THEN ""
                     ELSE "." \o ZeroPad(q % 10 ^ precision, precision)
         IN  (IF Scaled(val) < 0 THEN "-" ELSE "") \o whole \o frac

RECURSIVE Join_trailing(_, _)
\* A join that writes the separator after every item
Join_trailing(items, sep) ==
    IF Len(items) = 0 THEN ""
    ELSE items[1] \o sep \o Join_trailing(Tail(items), sep)

RECURSIVE Join(_, _)
\* sep.join(items)
Join(items, sep) ==
    IF Len(items) = 0 THEN ""
    ELSE IF Len(items) = 1 THEN items[1]
    ELSE items[1] \o sep \o Join(Tail(items), sep)

\* BaseFunction.params_str: the items are built in order, so the first
\* coercion that raises ends the call.
params_str(self, env, precision, sep) ==
    LET ps == parameters(self)
        vals == [i \in DOMAIN ps |-> value(ps[i].v, env)]
        bad == {i \in DOMAIN ps : ~vals[i].ok}
    IN  IF bad # {} THEN vals[CHOOSE i \in bad : \A j \in bad : i <= j]
        ELSE Ok(Join([i \in DOMAIN ps |->
                        ps[i].k \o "=" \o FormatFixed(vals[i].val, precision)], sep))

-----------------------------------------------------------------------------
(* state *)

VARIABLES
    variant,  \* the curve class the scenario constructs instances of
    holder,   \* holder[h]: the current .value of widget-like holder h
    inst,     \* inst[i]: bound-function instance i, or NoInst
    born,     \* born[i]: the holders' values when instance i was constructed
    arg,      \* the input object the caller passes, as the latest call left it
    last,     \* the latest operation, with its arguments and its outcome
    prev,     \* the operation before it, where a scenario keeps one
    site,     \* site[s]: the frame of the call in progress at call site s
    heap,     \* heap[b]: array buffer b, as allocated by the calls in progress
    held      \* held[s]: the value vectors the holders have had, all together,
              \* at the moments since the call in progress at site s began

vars == <<libm, variant, holder, inst, born, arg, last, prev, site, heap, held>>

Holders == 1..NumHolders

Insts == 1..NumInsts

NoInst == [cls |-> "none"]

NoOp == [op |-> "none"]

Sites == 1..NumSites

\* One buffer for each call that can be in progress.
BufIds == 1..NumSites

\* A call site with no call in progress.
Idle == [pc |-> "idle", x |-> None, vals |-> <<>>, y |-> 0, out |-> Ok(None)]

\* A buffer no array owns.
FreeBuf == [used |-> FALSE, data |-> <<>>]

NoCalls == [s \in Sites |-> Idle]

NoBufs == [b \in BufIds |-> FreeBuf]

NoneHeld == [s \in Sites |-> {}]

\* Every sequence over S of length at most n.
SeqsUpTo(S, n) == UNION {[1..k -> S] : k \in 0..n}

\* The positions of the array an input converts to.
Positions(x) ==
    IF x.t = "ndarray" THEN DOMAIN x.arr.data
    ELSE IF x.t = "list" THEN DOMAIN x.items
    ELSE {1}

\* What the uninitialised buffer of np.empty_like may hold.
JunkVals == {Fin(1, 1), Inf(1), Fin(-1, 0)}

\* The possible contents of the buffers a call of self allocates uninitialised.
JunkFor(self, x) ==
    IF self.cls = "RectangularHyperbolaKernel" THEN [Positions(x) -> JunkVals]
    ELSE {<<>>}

\* The caller's input object after a call with outcome out: a buffer the call
\* stored into holds what was stored, every other object is as it was.
after_call(x, out) ==
    IF x.t = "ndarray" /\ out.ok /\ x.arr.buf \in out.wrote
    THEN [x EXCEPT !.arr.data = out.val.data]
    ELSE x

-----------------------------------------------------------------------------
(* operations *)

\* cls(*args): construction of instance i.  (born, the record of the holders'
\* values at construction, is kept by the scenarios that read it.)
Construct(i, cls, args) ==
    /\ inst[i] = NoInst
    /\ LET r == dataclass_init(cls, args)
       IN  /\ inst' = IF r.ok THEN [inst EXCEPT ![i] = r.val] ELSE inst
           /\ last' = [op |-> "init", i |-> i, cls |-> cls, args |-> args,
                       out |-> IF r.ok THEN Ok(None) ELSE r]
    /\ UNCHANGED <<libm, variant, holder, arg, prev, site, heap, held>>

\* holder.value = v: the user moves a slider
SetHolder(h, v) ==
    /\ holder[h] # v
    /\ holder' = [holder EXCEPT ![h] = v]
    /\ last' = [op |-> "set", h |-> h, v |-> v]
    /\ held' = [s \in Sites |->
                  IF site[s].pc \in {"idle", "done"} THEN held[s]
                  ELSE held[s] \cup {holder'}]
    /\ UNCHANGED <<libm, variant, inst, born, arg, prev, site, heap>>

\* A call that uses the values the holders had when instance i was constructed
Evaluate_born(i, x) ==
    /\ inst[i] # NoInst
    /\ \E junk \in JunkFor(inst[i], x) :
         \E out \in {call(inst[i], x, born[i], junk)} :
             /\ last' = [op |-> "call", i |-> i, cls |-> inst[i].cls, x |-> x,
                         params |-> coerce_params(inst[i], born[i]), out |-> out]
             /\ arg' = after_call(x, out)
    /\ UNCHANGED <<libm, variant, holder, inst, born, site, heap, held>>

\* f(x): BaseFunction.__call__ on instance i.  (prev is kept by the scenarios
\* that compare two calls.)
Evaluate(i, x) ==
    /\ inst[i] # NoInst
    /\ \E junk \in JunkFor(inst[i], x) :
         \E out \in {call(inst[i], x, holder, junk)} :
             /\ last' = [op |-> "call", i |-> i, cls |-> inst[i].cls, x |-> x,
                         params |-> coerce_params(inst[i], holder), out |-> out]
             /\ arg' = after_call(x, out)
    /\ UNCHANGED <<libm, variant, holder, inst, born, site, heap, held>>

\* f.math_str()
MathStr(i) ==
    /\ inst[i] # NoInst
    /\ last' = [op |-> "math_str", i |-> i, cls |-> inst[i].cls,
                out |-> Ok(math_str(inst[i]))]
    /\ UNCHANGED <<libm, variant, holder, inst, born, arg, prev, site, heap, held>>

\* f.params_str(precision, sep)
ParamsStr(i, precision, sep) ==
    /\ inst[i] # NoInst
    /\ last' = [op |-> "params_str", i |-> i, cls |-> inst[i].cls,
                precision |-> precision, sep |-> sep,
                params |-> coerce_params(inst[i], holder),
                out |-> params_str(inst[i], holder, precision, sep)]
    /\ UNCHANGED <<libm, variant, holder, inst, born, arg, prev, site, heap, held>>

\* f.<k> = v: assignment to field number k of instance i
SetField(i, k, v) ==
    /\ inst[i] # NoInst
    /\ k \in DOMAIN inst[i].fields
    /\ LET r == dataclass_setattr(inst[i], k, v)
       IN  /\ inst' = [inst EXCEPT ![i] = r.obj]
           /\ last' = [op |-> "setattr", i |-> i, cls |-> inst[i].cls, out |-> r.out]
    /\ UNCHANGED <<libm, variant, holder, born, arg, prev, site, heap, held>>

\* _value(v)
Coerce(v) ==
    /\ last' = [op |-> "_value", v |-> v, out |-> value(v, holder)]
    /\ UNCHANGED <<libm, variant, holder, inst, born, arg, prev, site, heap, held>>

-----------------------------------------------------------------------------
(* a call of instance 1, one statement at a time, at call site s *)

\* The dict the comprehension of __call__ has built from the floats vals.
ParamsDict(self, vals) ==
    LET names == FieldNames(self.cls)
    IN  [k \in {names[i] : i \in DOMAIN vals} |->
            vals[CHOOSE i \in DOMAIN vals : names[i] = k]]

\* np.empty_like with an allocator that hands out one scratch buffer
empty_like_scratch(h) == 1

\* np.empty_like: the buffer of a new array is one no live array owns.
empty_like(h) == CHOOSE b \in BufIds : ~h[b].used /\ \A c \in 1..(b - 1) : h[c].used

\* 1 + (r / alpha) ** p at position i of the array x converts to
Denom(x, params, i) ==
    Add(One, np_power(Div(asarray(x).val.data[i], params["alpha"]), params["p"]))

\* f(x) is entered at call site s.
Enter(s, x) ==
    /\ site[s].pc = "idle"
    /\ inst[1] # NoInst
    /\ site' = [site EXCEPT ![s] = [Idle EXCEPT !.pc = "params", !.x = x]]
    /\ held' = [held EXCEPT ![s] = {holder}]
    /\ UNCHANGED <<libm, variant, holder, inst, born, arg, last, prev, heap>>

\* One item of {k: _value(v) for k, v in self.parameters.items()}.
ReadParam(s) ==
    /\ site[s].pc = "params"
    /\ LET f == site[s]
           ps == parameters(inst[1])
           r == value(ps[Len(f.vals) + 1].v, holder)
       IN  site' = [site EXCEPT ![s] =
                      IF ~r.ok THEN [f EXCEPT !.pc = "done", !.out = r]
                      ELSE [f EXCEPT !.vals = Append(f.vals, r.val),
                                     !.pc = IF Len(f.vals) + 1 = Len(ps)
                                            THEN "fn" ELSE "params"]]
    /\ UNCHANGED <<libm, variant, holder, inst, born, arg, last, prev, heap, held>>

\* self.fn(x, **params), up to the first statement that stores into a buffer:
\* for kernel_rectangular_hyperbola the guard, np.asarray and denom; for the
\* other curves, whose statements only build new arrays, the whole function.
Body(s) ==
    /\ site[s].pc = "fn"
    /\ LET f == site[s]
           params == ParamsDict(inst[1], f.vals)
       IN  site' = [site EXCEPT ![s] =
                      IF inst[1].cls # "RectangularHyperbolaKernel"
                      THEN [f EXCEPT !.pc = "done", !.out = fn(inst[1], f.x, params, <<>>)]
                      ELSE IF Le0(params["alpha"]) \/ Le0(params["p"])
                      THEN [f EXCEPT !.pc = "done", !.out = full_nan_like(f.x)]
                      ELSE IF ~asarray(f.x).ok
                      THEN [f EXCEPT !.pc = "done", !.out = asarray(f.x)]
                      ELSE [f EXCEPT !.pc = "alloc"]]
    /\ UNCHANGED <<libm, variant, holder, inst, born, arg, last, prev, heap, held>>

\* out=np.empty_like(ratio, dtype=np.float64): the argument of np.divide
Alloc(s) ==
    /\ site[s].pc = "alloc"
    /\ LET b == empty_like(heap)
       IN  /\ \E junk \in [Positions(site[s].x) -> JunkVals] :
                 heap' = [heap EXCEPT ![b] = [used |-> TRUE, data |-> junk]]
           /\ site' = [site EXCEPT ![s].pc = "divide", ![s].y = b]
    /\ UNCHANGED <<libm, variant, holder, inst, born, arg, last, prev, held>>

\* y = np.divide(1.0, denom, out=..., where=denom != 0.0)
Divide(s) ==
    /\ site[s].pc = "divide"
    /\ LET f == site[s]
           params == ParamsDict(inst[1], f.vals)
           old == heap[f.y].data
       IN  heap' = [heap EXCEPT ![f.y].data =
                      [i \in DOMAIN old |->
                          IF Ne0(Denom(f.x, params, i))
                          THEN Div(One, Denom(f.x, params, i)) ELSE old[i]]]
    /\ site' = [site EXCEPT ![s].pc = "where"]
    /\ UNCHANGED <<libm, variant, holder, inst, born, arg, last, prev, held>>

\* y = np.where(denom > 0, y, np.nan); return y.  The buffer of the
\* intermediate y is released when the name is rebound.
Where(s) ==
    /\ site[s].pc = "where"
    /\ LET f == site[s]
           params == ParamsDict(inst[1], f.vals)
           y == heap[f.y].data
           res == Elementwise(asarray(f.x).val,
                              LAMBDA i : IF Gt0(Denom(f.x, params, i)) THEN y[i] ELSE NaN)
       IN  /\ site' = [site EXCEPT ![s].pc = "done", ![s].out = OkWrote(res, {"fresh"})]
           /\ heap' = [heap EXCEPT ![f.y].used = FALSE]
    /\ UNCHANGED <<libm, variant, holder, inst, born, arg, last, prev, held>>

-----------------------------------------------------------------------------
(* SpecCall: two calls of a bound function with the same input, over wide   *)
(* ranges of parameter values and inputs                                    *)

\* Parameter values the kernels are called with: the special values and the
\* extremes of the format.
ParamSample ==
    {NaN, Inf(1), Zero, One, Fin(-1, 0), Fin(1, 1), Fin(1, -1),
     Fin(1, EMax), Fin(1, -EMax)}

\* Parameter values of power-law decay, which takes three.
DecaySample == {Zero, One, Fin(-1, 0), Fin(1, 1), Fin(-1, 1), Fin(1, -1)}

\* Input values: the first position of an array takes any of them, the
\* positions after it a valid, an invalid and an undefined distance.
InputSample ==
    {Zero, One, Fin(-1, 0), Fin(-1, 1), Fin(1, EMax), Fin(1, -EMax), NaN}

TailSample == {Zero, Fin(-1, 0), NaN}

InputArrays ==
    {d \in SeqsUpTo(InputSample, MaxLen) :
        \A i \in DOMAIN d : i > 1 => d[i] \in TailSample}

\* Values a parameter is bound to when it is not a plain float.
RawSample ==
    {Num(Fin(1, 1)), Num(Fin(-1, 0)), Str("abc"), None, BigInt, Holder(1)}

\* Values the .value of holder 1 may have.
HolderSample == {Num(One), Str("0.5"), Str("abc"), BigInt}

\* Inputs that are not float arrays.
RawInputs ==
    {List(<<Num(Zero), Num(Fin(-1, 1))>>), List(<<Str("2"), None>>),
     List(<<Num(One), Str("abc")>>), List(<<Obj, Str("abc")>>), Str("abc"),
     Num(Zero), List(<<BigInt>>)}

NumericArgs(cls) ==
    IF cls = "PowerLawDecay" THEN [1..3 -> {Num(f) : f \in DecaySample}]
    ELSE [1..Len(FieldNames(cls)) -> {Num(f) : f \in ParamSample}]

\* The instance whose fields are plain numbers, the values the parameters of
\* self have under env; NoInst when one of them does not convert.
Twin(self, env) ==
    LET ps == parameters(self)
        vals == [i \in DOMAIN ps |-> value(ps[i].v, env)]
    IN  IF \E i \in DOMAIN ps : ~vals[i].ok THEN NoInst
        ELSE Instance(self.cls, [i \in DOMAIN ps |-> Num(vals[i].val)])

\* Instance 1 is the one under study; instance 2 is its twin.
InitCall ==
    /\ libm \in LibmModes
    /\ variant \in Variants
    /\ \/ /\ holder = [h \in Holders |-> Num(One)]
          /\ \E args \in NumericArgs(variant) :
               inst = [i \in Insts |->
                         IF i = 1 THEN Instance(variant, args)
                         ELSE IF i = 2 THEN Twin(Instance(variant, args), holder)
                         ELSE NoInst]
          /\ \E data \in InputArrays : arg = NdIn(data)
       \/ /\ \E v \in HolderSample : holder = [h \in Holders |-> IF h = 1 THEN v ELSE Num(One)]
          /\ \E args \in [1..Len(FieldNames(variant)) -> RawSample] :
               inst = [i \in Insts |->
                         IF i = 1 THEN Instance(variant, args)
                         ELSE IF i = 2 THEN Twin(Instance(variant, args), holder)
                         ELSE NoInst]
          /\ arg \in RawInputs
    /\ born = [i \in Insts |-> <<>>]
    /\ last = NoOp
    /\ prev = NoOp
    /\ site = NoCalls
    /\ heap = NoBufs
    /\ held = NoneHeld

\* The first call, on the instance under study.
CallOnce ==
    /\ last = NoOp
    /\ Evaluate(1, arg)
    /\ UNCHANGED prev

\* A second call with the same input, on the same instance or on its twin.
CallAgain ==
    /\ last.op = "call"
    /\ prev = NoOp
    /\ \E i \in {1, 2} : Evaluate(i, arg)
    /\ prev' = last

NextCall == CallOnce \/ CallAgain

SpecCall == InitCall /\ [][NextCall]_vars

-----------------------------------------------------------------------------
(* SpecValue: _value on every kind of value, plain or behind holder 1 *)

\* The floats of the format whose exponent is one ParamSample uses.
ValueSample ==
    {Num(f) : f \in ParamSample \cup {Inf(-1), Fin(-1, EMax)}}
        \cup {Str(t) : t \in DOMAIN StrTable \cup {"abc", ""}}
        \cup {None, Obj, BigInt}

InitValue ==
    /\ libm \in LibmModes
    /\ variant \in Variants
    /\ \E v \in ValueSample : holder = [h \in Holders |-> IF h = 1 THEN v ELSE Num(One)]
    /\ inst = [i \in Insts |-> NoInst]
    /\ born = [i \in Insts |-> <<>>]
    /\ arg = None
    /\ last = NoOp
    /\ prev = NoOp
    /\ site = NoCalls
    /\ heap = NoBufs
    /\ held = NoneHeld

NextValue == \E v \in ValueSample \cup {Holder(h) : h \in Holders} : Coerce(v)

SpecValue == InitValue /\ [][NextValue]_vars

-----------------------------------------------------------------------------
(* Spec: the life of bound functions of one class: construction, slider     *)
(* moves, calls, display strings, attempts to assign a field                *)

\* Argument lists of a construction: plain numbers, holders, a first argument
\* that is no number, a last argument that is not positive.
ArgMenu(cls) ==
    LET n == Len(FieldNames(cls))
    IN  {[k \in 1..n |-> Num(One)],
         [k \in 1..n |-> Holder(((k - 1) % NumHolders) + 1)],
         [k \in 1..n |-> IF k = 1 THEN Str("abc") ELSE Num(One)],
         [k \in 1..n |-> IF k = n THEN Num(Fin(-1, 0)) ELSE Num(Fin(1, 1))]}

\* Values the user gives a holder.
HolderVals == {Num(One), Num(Fin(-1, 0)), Str("abc")}

\* The caller's input: an array of floats, a list, a text.
ObjInputs == {NdIn(<<Zero, Fin(-1, 0)>>), List(<<Num(One)>>), Str("abc")}

Init ==
    /\ libm \in LibmModes
    /\ variant \in Variants
    /\ holder = [h \in Holders |-> Num(One)]
    /\ inst = [i \in Insts |-> NoInst]
    /\ born = [i \in Insts |-> <<>>]
    /\ arg \in ObjInputs
    /\ last = NoOp
    /\ prev = NoOp
    /\ site = NoCalls
    /\ heap = NoBufs
    /\ held = NoneHeld

New ==
    /\ \E i \in Insts, args \in ArgMenu(variant) : Construct(i, variant, args)
    /\ UNCHANGED born

Move == \E h \in Holders, v \in HolderVals : SetHolder(h, v)

Call ==
    /\ \E i \in Insts : Evaluate(i, arg)
    /\ UNCHANGED prev

Show ==
    \/ \E i \in Insts : MathStr(i)
    \/ \E i \in Insts, precision \in {0, 2} : ParamsStr(i, precision, ", ")

Assign == \E i \in Insts, k \in 1..3 : SetField(i, k, Num(Fin(1, 1)))

Next == New \/ Move \/ Call \/ Show \/ Assign

Spec == Init /\ [][Next]_vars

-----------------------------------------------------------------------------
(* SpecLive: one bound function and the sliders it is bound to; born keeps  *)
(* the sliders' values at its construction                                  *)

NewLive ==
    /\ \E args \in ArgMenu(variant) : Construct(1, variant, args)
    /\ born' = [born EXCEPT ![1] = holder]

CallLive ==
    /\ Evaluate(1, arg)
    /\ UNCHANGED prev

ShowLive == \E precision \in {0, 2} : ParamsStr(1, precision, ", ")

NextLive == NewLive \/ Move \/ CallLive \/ ShowLive

SpecLive == Init /\ [][NextLive]_vars

-----------------------------------------------------------------------------
(* SpecConc: NumSites call sites evaluate instance 1 at the same time, their *)
(* statements interleaved in every order                                    *)

\* Argument lists of the shared instance: valid numbers, a holder, a scale
\* that is not positive, a last argument that is no number.
ConcArgs(cls) ==
    LET n == Len(FieldNames(cls))
    IN  {[k \in 1..n |-> IF k = 1 THEN Num(Fin(1, 1)) ELSE Num(One)],
         [k \in 1..n |-> IF k = 1 THEN Num(Fin(1, 1)) ELSE Holder(1)],
         [k \in 1..n |-> IF k = 1 THEN Num(Fin(-1, 0)) ELSE Num(One)],
         [k \in 1..n |-> IF k = n THEN Str("abc") ELSE Num(One)]}

\* Lists a call site passes instead of the array the sites share.
ConcLists == {List(<<Num(Fin(1, 1)), Num(Zero)>>), List(<<Num(Fin(-1, 1)), Str("abc")>>)}

InitConc ==
    /\ libm \in LibmModes
    /\ variant \in Variants
    /\ holder = [h \in Holders |-> Num(One)]
    /\ \E args \in ConcArgs(variant) :
         inst = [i \in Insts |-> IF i = 1 THEN Instance(variant, args) ELSE NoInst]
    /\ born = [i \in Insts |-> <<>>]
    /\ arg \in {NdIn(<<Zero, Fin(1, 1)>>), NdIn(<<Fin(-1, 1), One>>)}
    /\ last = NoOp
    /\ prev = NoOp
    /\ site = NoCalls
    /\ heap = NoBufs
    /\ held = NoneHeld

Step(s) ==
    \/ \E x \in {arg} \cup ConcLists : Enter(s, x)
    \/ ReadParam(s)
    \/ Body(s)
    \/ Alloc(s)
    \/ Divide(s)
    \/ Where(s)

NextConc == \E s \in Sites : Step(s)

SpecConc == InitConc /\ [][NextConc]_vars

-----------------------------------------------------------------------------
(* SpecText: params_str of one instance, over the values a parameter can    *)
(* have, every precision up to MaxPrecision and several separators          *)

Separators == {", ", ";", ""}

InitText ==
    /\ libm \in LibmModes
    /\ variant \in Variants
    /\ holder = [h \in Holders |-> Num(Fin(1, -1))]
    /\ \E args \in NumericArgs(variant) \cup ArgMenu(variant) :
         inst = [i \in Insts |-> IF i = 1 THEN Instance(variant, args) ELSE NoInst]
    /\ born = [i \in Insts |-> <<>>]
    /\ arg = None
    /\ last = NoOp
    /\ prev = NoOp
    /\ site = NoCalls
    /\ heap = NoBufs
    /\ held = NoneHeld

NextText == \E precision \in 0..MaxPrecision, sep \in Separators : ParamsStr(1, precision, sep)

SpecText == InitText /\ [][NextText]_vars

-----------------------------------------------------------------------------
(* an exponential-power kernel beside the kernel it generalises: instance 1 *)
(* is ExpPowerKernel(lam, q) with q = 1 or q = 2, instance 2 the            *)
(* exponential or the Gaussian kernel with the same scale; both are called  *)
(* with one shared array of distances, under either pow.                    *)

\* Scales and distances with one and with two significant bits.
PairScales == ParamSample \cup {Fin3(1, 0), Fin3(1, -1)}

PairDistances ==
    {Zero, One, Fin(-1, 0), Fin3(1, 0), Fin3(-1, 0), Fin3(1, 1), Fin(1, EMax),
     NaN}

PairShapes == {One, Fin(1, 1)}

InitPair ==
    /\ libm \in LibmModes
    /\ variant = "ExpPowerKernel"
    /\ holder = [h \in Holders |-> Num(One)]
    /\ \E lam \in PairScales, q \in PairShapes :
         inst = [i \in Insts |->
                   IF i = 1 THEN Instance("ExpPowerKernel", <<Num(lam), Num(q)>>)
                   ELSE IF i = 2
                        THEN Instance(IF q = One THEN "ExponentialKernel"
                                      ELSE "GaussianKernel", <<Num(lam)>>)
                   ELSE NoInst]
    /\ \E data \in SeqsUpTo(PairDistances, MaxLen) : arg = NdIn(data)
    /\ born = [i \in Insts |-> <<>>]
    /\ last = NoOp
    /\ prev = NoOp
    /\ site = NoCalls
    /\ heap = NoBufs
    /\ held = NoneHeld

SpecPair == InitPair /\ [][NextCall]_vars

-----------------------------------------------------------------------------
(* calls of a bound function whose parameters are holders, one statement at *)
(* a time, while the holders are being set from elsewhere                   *)

\* The curves with two or more parameters.
SnapVariants == {c \in Variants : Len(FieldNames(c)) >= 2}

InitSnap ==
    /\ libm \in LibmModes
    /\ variant \in SnapVariants
    /\ holder = [h \in Holders |-> Num(One)]
    /\ inst = [i \in Insts |->
                 IF i = 1
                 THEN Instance(variant,
                               [k \in 1..Len(FieldNames(variant)) |->
                                   IF k \in Holders THEN Holder(k) ELSE Num(One)])
                 ELSE NoInst]
    /\ born = [i \in Insts |-> <<>>]
    /\ arg = NdIn(<<Zero, Fin(1, 1)>>)
    /\ last = NoOp
    /\ prev = NoOp
    /\ site = NoCalls
    /\ heap = NoBufs
    /\ held = NoneHeld

\* Each slider is moved once, from 1 to 2, at any moment.
Slide == \E h \in Holders : holder[h] = Num(One) /\ SetHolder(h, Num(Fin(1, 1)))

\* The call under study runs at site 1; the sliders move in between its
\* statements.
NextSnap == Step(1) \/ Slide

SpecSnap == InitSnap /\ [][NextSnap]_vars

-----------------------------------------------------------------------------
(* vocabulary of the properties *)

IsPositive(f) == f.c \in {"fin", "inf"} /\ f.s > 0

IsNonPositive(f) == f.c = "zero" \/ (f.c \in {"fin", "inf"} /\ f.s < 0)

\* The floats of an input array, once converted.
InputData(x) == asarray(x).val.data

\* The values of a coerced parameter dict.
ParamValues(params) == {params.val[k] : k \in DOMAIN params.val}

\* A finished call of one of the given classes whose parameters and input
\* converted.
NumericCall(op, classes) ==
    /\ op.op = "call"
    /\ op.cls \in classes
    /\ op.params.ok
    /\ asarray(op.x).ok

AllNaN(arr) == \A i \in DOMAIN arr.data : IsNaN(arr.data[i])

-----------------------------------------------------------------------------
(* C1 *)

\* C1: for each of the five dispersal kernels, when any scale/shape parameter
\* is <= 0 the output is the array _full_nan_like builds, NaN at every
\* position of the input whatever the input holds; when all of them are > 0
\* that substitution is not applied (a distance of 0 gives 1.0).
C1_KernelGlobalGuard ==
    NumericCall(last, Kernels) =>
        LET ps == ParamValues(last.params)
            r == InputData(last.x)
            out == last.out
        IN  /\ (\E f \in ps : IsNonPositive(f)) =>
                  /\ out.ok /\ out.filled
                  /\ DOMAIN out.val.data = DOMAIN r
                  /\ AllNaN(out.val)
            /\ (\A f \in ps : IsPositive(f)) =>
                  /\ out.ok /\ ~out.filled
                  /\ DOMAIN out.val.data = DOMAIN r
                  /\ \A i \in DOMAIN r : r[i] = Zero => out.val.data[i] = One

\* A power-law kernel with p = 0 was called on a negative and a zero distance
\* and returned NaN at both.
C1_Witness ==
    /\ NumericCall(last, {"PowerLawKernel"})
    /\ IsPositive(last.params.val["alpha"])
    /\ last.params.val["p"] = Zero
    /\ Len(InputData(last.x)) = 2
    /\ InputData(last.x)[1] = Fin(-1, 1)
    /\ InputData(last.x)[2] = Zero
    /\ last.out.ok /\ AllNaN(last.out.val)

-----------------------------------------------------------------------------
(* C2 *)

\* The quantity a is multiplied with at position i: (x + b)^(-p) for power-law
\* decay, ln(x + b) for logarithmic growth.
Inner(op, i) ==
    LET d == Add(InputData(op.x)[i], op.params.val["b"])
    IN  IF op.cls = "PowerLawDecay" THEN np_power(d, Neg(op.params.val["p"]))
        ELSE np_log(d)

FiniteParams(op) == \A f \in ParamValues(op.params) : IsFinite(f)

\* C2 as stated, for inputs that hold finite values only: for power-law
\* decay and logarithmic growth with finite a, p, b the output at a position is
\* NaN exactly when x + b <= 0 there and a finite value otherwise, and no
\* whole-array substitution takes place.
C2_AsStated ==
    (/\ NumericCall(last, {"PowerLawDecay", "LogGrowth"})
     /\ FiniteParams(last)
     /\ \A i \in DOMAIN InputData(last.x) : IsFinite(InputData(last.x)[i])) =>
        LET x == InputData(last.x)
            b == last.params.val["b"]
            out == last.out
        IN  /\ out.ok /\ ~out.filled
            /\ DOMAIN out.val.data = DOMAIN x
            /\ \A i \in DOMAIN x :
                 /\ IsNaN(out.val.data[i]) <=> IsNonPositive(Add(x[i], b))
                 /\ ~IsNaN(out.val.data[i]) => IsFinite(out.val.data[i])

\* C2 amended: with finite a, p, b the output at a position is NaN exactly
\* when x + b > 0 does not hold there (x + b <= 0, or x + b is NaN), or when
\* a = 0 and (x + b)^(-p), respectively ln(x + b), is infinite; at every other
\* position it is the product a * (x + b)^(-p), respectively a * ln(x + b),
\* which is not NaN and is infinite only when the inner value or the product
\* overflows.  No whole-array substitution takes place.
C2_ElementwiseDomain ==
    (NumericCall(last, {"PowerLawDecay", "LogGrowth"}) /\ FiniteParams(last)) =>
        LET x == InputData(last.x)
            a == last.params.val["a"]
            b == last.params.val["b"]
            out == last.out
        IN  /\ out.ok /\ ~out.filled
            /\ DOMAIN out.val.data = DOMAIN x
            /\ \A i \in DOMAIN x :
                 /\ IsNaN(out.val.data[i]) <=>
                       \/ ~IsPositive(Add(x[i], b))
                       \/ (a = Zero /\ IsInf(Inner(last, i)))
                 /\ IsInf(out.val.data[i]) =>
                       \/ IsInf(Inner(last, i))
                       \/ (IsFinite(Inner(last, i)) /\ IsInf(Mul(a, Inner(last, i))))

\* A decay call with a <= 0 and p <= 0 whose first position overflowed to an
\* infinity and whose second position is outside the domain.
C2_Witness ==
    /\ NumericCall(last, {"PowerLawDecay"}) /\ FiniteParams(last)
    /\ IsNonPositive(last.params.val["a"])
    /\ IsNonPositive(last.params.val["p"])
    /\ Len(InputData(last.x)) = 2
    /\ IsInf(last.out.val.data[1])
    /\ IsNonPositive(Add(InputData(last.x)[2], last.params.val["b"]))
    /\ IsNaN(last.out.val.data[2])

-----------------------------------------------------------------------------
(* C4 *)

\* The raw value a parameter source stands for: the holder's .value, or itself.
RawOf(v) == IF v.t = "holder" THEN holder[v.h] ELSE v

\* Values float() turns into a number: numbers that fit and numeric text.
Convertible(raw) ==
    raw.t = "num" \/ (raw.t = "str" /\ raw.s \in {"1", "2", "0.5", "-1", "0", "nan", "inf"})

\* The items of an input that has some: a list's, or the scalar itself.
InputItems(x) == IF x.t = "list" THEN x.items ELSE <<x>>

\* An item np.asarray cannot turn into a float64 (None becomes nan).
BadItem(raw) == ~Convertible(raw) /\ raw.t # "none"

\* The exception an unconvertible item raises in np.asarray.
ItemError(raw) ==
    CASE raw.t = "str" -> "ValueError"
      [] raw.t = "bigint" -> "OverflowError"
      [] OTHER -> "TypeError"

BadParams(op) == \E k \in DOMAIN inst[op.i].fields : ~Convertible(RawOf(inst[op.i].fields[k]))

BadInput(op) ==
    op.x.t # "ndarray" /\ \E k \in DOMAIN InputItems(op.x) : BadItem(InputItems(op.x)[k])

\* C4 as stated: evaluate raises TypeError, and returns no array, both when a
\* bound parameter and when the input cannot be reduced to numbers.
C4_AsStated ==
    (last.op = "call" /\ (BadParams(last) \/ BadInput(last))) =>
        (~last.out.ok /\ last.out.exc = "TypeError")

\* What evaluate does in these cases (not the statement of C4): it raises and
\* returns no array, for every curve, but the kind of error depends on the
\* cause.  An unconvertible
\* parameter raises the TypeError of _value, or OverflowError when it is an
\* int too large for a float.  An unconvertible input (with convertible
\* parameters) raises what np.asarray raises for its first unconvertible
\* item: ValueError for non-numeric text, TypeError for an object that is no
\* number, OverflowError for an int too large for a float.
C4_ConversionErrors ==
    last.op = "call" =>
        /\ BadParams(last) =>
              /\ ~last.out.ok
              /\ last.out.exc \in {"TypeError", "OverflowError"}
              /\ last.out.exc = "OverflowError" =>
                    \E k \in DOMAIN inst[last.i].fields :
                        RawOf(inst[last.i].fields[k]).t = "bigint"
        /\ (~BadParams(last) /\ BadInput(last)) =>
              LET items == InputItems(last.x)
                  first == CHOOSE k \in DOMAIN items :
                              /\ BadItem(items[k])
                              /\ \A j \in 1..(k - 1) : ~BadItem(items[j])
              IN  ~last.out.ok /\ last.out.exc = ItemError(items[first])

\* The divergence of C4: a kernel is called with a list that holds
\* non-numeric text, and the error is ValueError.
C4_Witness ==
    /\ last.op = "call"
    /\ last.cls = "ExponentialKernel"
    /\ inst[1].fields = <<Num(Fin(-1, 0))>>
    /\ last.x = List(<<Num(One), Str("abc")>>)
    /\ ~last.out.ok /\ last.out.exc = "ValueError"

-----------------------------------------------------------------------------
(* C5 *)

\* C5 as stated: _value accepts a real number, returned as that number, and
\* an object whose value property is a number; every other value raises
\* TypeError naming the type of the argument.
C5_AsStated ==
    last.op = "_value" =>
        LET v == last.v
        IN  IF v.t = "num" THEN last.out = Ok(v.f)
            ELSE IF v.t = "holder" /\ holder[v.h].t = "num"
                 THEN last.out = Ok(holder[v.h].f)
            ELSE /\ ~last.out.ok
                 /\ last.out.exc = "TypeError"
                 /\ last.out.about = TypeOf(v)

\* What _value does (not the statement of C5): it takes the argument's value
\* attribute when it has one and the argument itself otherwise, and returns float() of it: the number,
\* for a number that fits a float and also for numeric text ("0.5", "nan").
\* When float() raises TypeError or ValueError (None, an arbitrary object,
\* non-numeric text, directly or behind a holder) it raises TypeError naming
\* the type of the argument, and returns nothing; an int too large for a
\* float raises OverflowError.
C5_ValueCoercion ==
    last.op = "_value" =>
        LET v == last.v
            raw == RawOf(v)
        IN  IF raw.t = "num" THEN last.out = Ok(raw.f)
            ELSE IF Convertible(raw) THEN last.out.ok /\ last.out.val = StrTable[raw.s]
            ELSE IF raw.t = "bigint" THEN ~last.out.ok /\ last.out.exc = "OverflowError"
            ELSE /\ ~last.out.ok
                 /\ last.out.exc = "TypeError"
                 /\ last.out.about = TypeOf(v)

\* The divergence of C5: numeric text is converted, not rejected.
C5_Witness ==
    /\ last.op = "_value"
    /\ last.v = Str("0.5")
    /\ last.out = Ok(Fin(1, -1))

-----------------------------------------------------------------------------
(* C8 *)

\* C8: two calls of the same class with equal inputs and equal parameter
\* values, on one instance or on two, return equal outcomes: the same values
\* at the same positions, NaN at the same positions.
C8_Pure ==
    (/\ prev.op = "call" /\ last.op = "call"
     /\ prev.cls = last.cls
     /\ prev.x = last.x
     /\ prev.params.ok /\ prev.params = last.params) =>
        prev.out = last.out

\* The two calls ran on an instance bound to a holder and on one bound to
\* plain numbers, and the division was skipped at the first position.
C8_Witness ==
    /\ prev.op = "call" /\ last.op = "call"
    /\ prev.i = 1 /\ last.i = 2
    /\ last.cls = "RectangularHyperbolaKernel"
    /\ inst[1].fields = <<Num(Fin(1, 1)), Holder(1)>>
    /\ inst[2].fields = <<Num(Fin(1, 1)), Num(One)>>
    /\ last.x = List(<<Num(Zero), Num(Fin(-1, 1))>>)
    /\ prev.out.ok /\ prev.out = last.out
    /\ last.out.val.data = <<One, NaN>>

-----------------------------------------------------------------------------
(* C3 *)

\* No holder has a value: the environment of an instance bound to plain numbers.
NoHolders == [h \in Holders |-> None]

\* C3: each call and each params_str uses the values the holders have at the
\* moment of the call: its outcome is that of the same operation on an
\* instance bound to the plain numbers the holders stand for now (an error
\* when one of them stands for no number), whatever the holders' values were
\* at construction or at an earlier call.
C3_ReadAtCallTime ==
    LET now == IF last.op \in {"call", "params_str"}
               THEN Twin(inst[last.i], holder) ELSE NoInst
    IN  /\ last.op = "call" =>
              IF now = NoInst THEN ~last.out.ok
              ELSE \E junk \in JunkFor(now, last.x) :
                      last.out = call(now, last.x, NoHolders, junk)
        /\ last.op = "params_str" =>
              IF now = NoInst THEN ~last.out.ok
              ELSE last.out = params_str(now, NoHolders, last.precision, last.sep)

\* A kernel was constructed while its holder held 1, the holder was then set
\* to -1, and the call that followed returned NaN everywhere.
C3_Witness ==
    /\ last.op = "call"
    /\ last.cls = "ExponentialKernel"
    /\ inst[1].fields = <<Holder(1)>>
    /\ born[1][1] = Num(One)
    /\ holder[1] = Num(Fin(-1, 0))
    /\ last.x = NdIn(<<Zero, Fin(-1, 0)>>)
    /\ last.out.ok /\ AllNaN(last.out.val)

-----------------------------------------------------------------------------
(* C6 *)

\* The float a convertible raw value converts to.
FloatOf(raw) == IF raw.t = "num" THEN raw.f ELSE StrTable[raw.s]

\* Some parameter of the instance of op stands for a number that is <= 0.
NonPositiveParam(op) ==
    \E k \in DOMAIN inst[op.i].fields :
        LET raw == RawOf(inst[op.i].fields[k])
        IN  Convertible(raw) /\ IsNonPositive(FloatOf(raw))

\* C6: construction succeeds and stores the arguments as given, whatever they
\* are; a kernel with a non-positive parameter returns NaN everywhere at a
\* later call; an unconvertible parameter raises at a later call or
\* params_str.
C6_ConstructionNeverFails ==
    /\ last.op = "init" =>
          last.out.ok /\ inst[last.i] = Instance(last.cls, last.args)
    /\ (/\ last.op = "call" /\ last.cls \in Kernels
        /\ ~BadParams(last) /\ NonPositiveParam(last) /\ ~BadInput(last)) =>
          last.out.ok /\ AllNaN(last.out.val)
    /\ (last.op \in {"call", "params_str"} /\ BadParams(last)) => ~last.out.ok

\* An instance was constructed with a first argument that is text.
C6_Witness ==
    /\ last.op = "init"
    /\ last.args[1] = Str("abc")
    /\ last.out.ok
    /\ inst[last.i].fields[1] = Str("abc")

-----------------------------------------------------------------------------
(* C7 *)

\* C7: no step changes a constructed instance (its fields, hence its
\* template); an assignment to a field raises; a call leaves the caller's
\* input as it was and returns an array with a buffer of its own.
C7_Immutable ==
    /\ [][\A i \in Insts :
            inst[i] # NoInst =>
                inst'[i] = inst[i] /\ math_str(inst'[i]) = math_str(inst[i])]_vars
    /\ [](last.op = "setattr" => ~last.out.ok)
    /\ [][last'.op = "call" => arg' = arg]_vars
    /\ []((last.op = "call" /\ last.out.ok) =>
            (last.x.t = "ndarray" => last.out.val.buf # last.x.arr.buf))

\* An assignment to a field of an instance bound to holders was rejected,
\* after the caller's array went through a call.
C7_Witness ==
    /\ last.op = "setattr"
    /\ last.out = Raise("FrozenInstanceError", 1)
    /\ inst[last.i].fields[1] = Holder(1)
    /\ arg = NdIn(<<Zero, Fin(-1, 0)>>)

-----------------------------------------------------------------------------
(* C9 *)

\* C9: under every interleaving, a call that has finished at a call site has
\* the outcome of an uninterrupted call with the same input, and two calls in
\* progress never hold the same intermediate buffer.
C9_ConcurrentCalls ==
    /\ \A s \in Sites :
          site[s].pc = "done" =>
              \E junk \in JunkFor(inst[1], site[s].x) :
                  site[s].out = call(inst[1], site[s].x, holder, junk)
    /\ \A s, t \in Sites :
          (s # t /\ site[s].pc \in {"divide", "where"}
                 /\ site[t].pc \in {"divide", "where"}) => site[s].y # site[t].y

\* Site 1 has finished a rectangular-hyperbola call while site 2, which
\* allocated its buffer while that of site 1 was live, has not yet masked its
\* result.
C9_Witness ==
    /\ inst[1].cls = "RectangularHyperbolaKernel"
    /\ site[1].pc = "done" /\ site[1].out.ok
    /\ site[1].x = NdIn(<<Zero, Fin(1, 1)>>)
    /\ site[1].out.val.data = <<One, Fin(1, -1)>>
    /\ site[2].pc = "where" /\ site[2].y = 2
    /\ site[2].x = List(<<Num(Fin(1, 1)), Num(Zero)>>)

-----------------------------------------------------------------------------
(* C10 *)

\* C10: math_str returns the template of the class, the same string for every
\* instance of the class whatever its bound values, before and after holder
\* updates and calls.
C10_FixedTemplate ==
    /\ [](last.op = "math_str" => last.out = Ok(MATH_TEMPLATE(last.cls)))
    /\ [](\A i, j \in Insts :
            (inst[i] # NoInst /\ inst[j] # NoInst /\ inst[i].cls = inst[j].cls) =>
                math_str(inst[i]) = math_str(inst[j]))
    /\ [][(last.op = "math_str" /\ last'.op = "math_str" /\ last.cls = last'.cls) =>
            last'.out = last.out]_vars

\* math_str was called on the second of two instances with different bound
\* values, after a holder was updated.
C10_Witness ==
    /\ last.op = "math_str"
    /\ last.i = 2
    /\ inst[1] # NoInst
    /\ inst[1].fields # inst[2].fields
    /\ holder[1] = Num(Fin(-1, 0))
    /\ last.out = Ok(MATH_TEMPLATE(variant))

-----------------------------------------------------------------------------
(* C11 *)

\* The parameter names of each curve, in the order C11 lists them.
DeclaredOrder(cls) ==
    CASE cls = "PowerLawDecay" -> <<"a", "p", "b">>
      [] cls = "LogGrowth" -> <<"a", "b">>
      [] cls = "ExponentialKernel" -> <<"lam">>
      [] cls = "GaussianKernel" -> <<"sigma">>
      [] cls \in {"PowerLawKernel", "RectangularHyperbolaKernel"} -> <<"alpha", "p">>
      [] cls = "ExpPowerKernel" -> <<"lam", "q">>

RECURSIVE Digits(_, _)
\* The p lowest decimal digits of n, as text of exactly p characters.
Digits(n, p) == IF p = 0 THEN "" ELSE Digits(n \div 10, p - 1) \o ToString(n % 10)

\* The texts that write the finite float val with exactly p digits after the
\* decimal point (no point when p = 0): an optional minus sign, the whole
\* part, the p digits, denoting a decimal number nearest to val.
FixedTexts(val, p) ==
    IF ~IsFinite(val) THEN {}
    ELSE LET mag == IF Scaled(val) < 0 THEN -Scaled(val) ELSE Scaled(val)
             sign == IF Scaled(val) < 0 THEN "-" ELSE ""
         IN  {sign \o ToString(w) \o (IF p = 0 THEN "" ELSE "." \o Digits(f, p)) :
                <<w, f>> \in {wf \in (0..Pow2(EMax + 1)) \X (0..(10 ^ p - 1)) :
                    LET err == (wf[1] * 10 ^ p + wf[2]) * Unit - mag * 10 ^ p
                    IN  2 * err <= Unit /\ -2 * err <= Unit}}

\* The texts of a float that is not finite.
SpecialTexts(val) ==
    IF IsNaN(val) THEN {"nan"}
    ELSE IF IsInf(val) THEN {IF val.s = 1 THEN "inf" ELSE "-inf"}
    ELSE {}

RECURSIVE Concat(_, _)
\* The items with sep between each two of them and nowhere else.
Concat(items, sep) ==
    IF Len(items) = 0 THEN ""
    ELSE IF Len(items) = 1 THEN items[1]
    ELSE Concat(SubSeq(items, 1, Len(items) - 1), sep) \o sep \o items[Len(items)]

\* The texts name=value, ..., one item for each declared parameter of op in
\* declared order, the value of item i drawn from Texts(its float).
ItemTexts(op, Texts(_)) ==
    LET names == DeclaredOrder(op.cls)
        all == UNION {Texts(op.params.val[names[i]]) : i \in DOMAIN names}
    IN  {Concat([i \in DOMAIN names |-> names[i] \o "=" \o r[i]], op.sep) :
            r \in {r \in [DOMAIN names -> all] :
                     \A i \in DOMAIN names : r[i] \in Texts(op.params.val[names[i]])}}

\* C11 as stated: params_str returns one name=value item per parameter in
\* declared order, every value written with exactly precision digits after
\* the decimal point, the items joined by the separator.
C11_AsStated ==
    (last.op = "params_str" /\ last.params.ok) =>
        /\ last.out.ok
        /\ last.out.val \in ItemTexts(last, LAMBDA v : FixedTexts(v, last.precision))

\* C11 amended: params_str returns one name=value item per parameter in
\* declared order, joined by the separator with none leading or trailing; a
\* finite value is written with exactly precision digits after the decimal
\* point (rounded to the nearest such decimal), a value that is not finite is
\* written nan, inf or -inf, with no digits, whatever the precision.
C11_ParamsFormat ==
    (last.op = "params_str" /\ last.params.ok) =>
        /\ last.out.ok
        /\ last.out.val \in
              ItemTexts(last, LAMBDA v : FixedTexts(v, last.precision) \cup SpecialTexts(v))

\* Power-law decay bound to a = 0.5, p = -1, b = 2, with the defaults.
C11_Witness ==
    /\ last.op = "params_str"
    /\ last.cls = "PowerLawDecay"
    /\ inst[1].fields = <<Num(Fin(1, -1)), Num(Fin(-1, 0)), Num(Fin(1, 1))>>
    /\ last.precision = 2 /\ last.sep = ", "
    /\ last.out = Ok("a=0.50, p=-1.00, b=2.00")

-----------------------------------------------------------------------------
(* C12 *)

\* The shape of an input: its number of dimensions and of positions.  A
\* number is an array of no dimension with one position.
InputShape(x) ==
    IF x.t = "ndarray" THEN <<x.arr.dim, Len(x.arr.data)>>
    ELSE IF x.t = "list" THEN <<1, Len(x.items)>>
    ELSE <<0, 1>>

\* C12: for every curve and every numeric input the output has the shape of
\* the input, when the curve is computed and when a kernel's parameter guard
\* fails and the NaN array is returned.
C12_ShapePreserved ==
    NumericCall(last, Variants) =>
        /\ last.out.ok
        /\ <<last.out.val.dim, Len(last.out.val.data)>> = InputShape(last.x)

\* A kernel whose guard fails was called with a list of two distances.
C12_Witness ==
    /\ NumericCall(last, {"ExponentialKernel"})
    /\ last.params.val["lam"] = Fin(-1, 0)
    /\ last.x = List(<<Num(Zero), Num(Fin(-1, 1))>>)
    /\ last.out.ok /\ last.out.filled
    /\ last.out.val.dim = 1 /\ Len(last.out.val.data) = 2

-----------------------------------------------------------------------------
(* C13 *)

\* C13: with every parameter > 0 the exponential, Gaussian and
\* rectangular-hyperbola kernels return 1.0 at each position whose distance
\* is 0, whatever the other positions of the input hold.
C13_OneAtZero ==
    (/\ NumericCall(last, {"ExponentialKernel", "GaussianKernel",
                           "RectangularHyperbolaKernel"})
     /\ \A f \in ParamValues(last.params) : IsPositive(f)) =>
        /\ last.out.ok
        /\ \A i \in DOMAIN InputData(last.x) :
              InputData(last.x)[i] = Zero => last.out.val.data[i] = One

\* An exponential kernel with lam = 2 was called on the distances 0 and -1:
\* 1.0 at the first position, a value other than 1.0 at the second.
C13_Witness ==
    /\ NumericCall(last, {"ExponentialKernel"})
    /\ last.params.val["lam"] = Fin(1, 1)
    /\ InputData(last.x) = <<Zero, Fin(-1, 0)>>
    /\ last.out.ok
    /\ last.out.val.data[1] = One
    /\ last.out.val.data[2] # One

-----------------------------------------------------------------------------
(* C14 *)

\* The exponential-power kernel was called and then, with the same input, the
\* kernel it is compared with.
PairCalls ==
    /\ NumericCall(prev, {"ExpPowerKernel"})
    /\ prev.i = 1
    /\ NumericCall(last, {"ExponentialKernel", "GaussianKernel"})
    /\ last.i = 2
    /\ last.x = prev.x

\* The non-negative value w and the values of the format on either side of it.
Nearby(w) ==
    IF w.c = "fin"
    THEN {w,
          IF w.m = 2 THEN Float(1, 3, w.e) ELSE Float(1, 2, w.e + 1),
          IF w.m = 3 THEN Float(1, 2, w.e) ELSE Float(1, 3, w.e - 1)}
    ELSE IF w.c = "zero" THEN {w, Float(1, 2, -EMax)}
    ELSE IF w.c = "inf" THEN {w, Float(1, 3, EMax)}
    ELSE {w}

\* C14 as stated: the exponential-power kernel with q = 2 (q = 1) returns the
\* same output as the Gaussian (exponential) kernel with the same scale, at
\* every position of every shared input.
C14_AsStated == PairCalls => prev.out = last.out

\* C14: with q = 1 the exponential-power kernel returns exactly the output of
\* the exponential kernel with the same scale.  With q = 2 it returns the
\* output of the Gaussian kernel up to the rounding of pow: at each position
\* the value is exp(-w) for a w that is the square of r / lam or one of the two
\* floats next to it, and the outputs are equal when pow rounds to nearest.
\* Under a scale <= 0 both outputs are NaN at every position.
C14_ExpPowerMatches ==
    PairCalls =>
        LET q == prev.params.val["q"]
            lam == prev.params.val["lam"]
            r == InputData(prev.x)
        IN  /\ prev.out.ok /\ last.out.ok
            /\ DOMAIN prev.out.val.data = DOMAIN last.out.val.data
            /\ Le0(lam) => AllNaN(prev.out.val) /\ prev.out = last.out
            /\ q = One => prev.out = last.out
            /\ libm = "nearest" => prev.out = last.out
            /\ \A i \in DOMAIN r :
                  /\ IsNaN(prev.out.val.data[i]) = IsNaN(last.out.val.data[i])
                  /\ (q = Fin(1, 1) /\ ~Le0(lam)) =>
                        prev.out.val.data[i] \in
                          {np_exp(Neg(w)) : w \in Nearby(np_square(Div(r[i], lam)))}

\* With a pow that is not correctly rounded, ExpPowerKernel(lam=1, q=2) and
\* GaussianKernel(sigma=1) were called on the distances -1.5 and 0: they
\* differ at the first position and agree at the second.
C14_Witness ==
    /\ PairCalls
    /\ libm = "faithful"
    /\ prev.params.val["q"] = Fin(1, 1)
    /\ prev.params.val["lam"] = One
    /\ InputData(prev.x) = <<Fin3(-1, 0), Zero>>
    /\ prev.out.val.data[1] # last.out.val.data[1]
    /\ prev.out.val.data[2] = One
    /\ last.out.val.data[2] = One

-----------------------------------------------------------------------------
(* C15 *)

\* f lies in the interval (0, 1]
InUnitInterval(f) == Gt0(f) /\ Le1(f)

\* A finished kernel call with every parameter finite and > 0.
ValidKernelCall(op) ==
    /\ NumericCall(op, Kernels)
    /\ \A f \in ParamValues(op.params) : IsPositive(f) /\ IsFinite(f)

\* C15 as stated: with strictly positive parameters every output value of a
\* dispersal kernel that is not NaN lies in (0, 1], for every input array,
\* negative distances included.
C15_AsStated ==
    ValidKernelCall(last) =>
        /\ last.out.ok
        /\ \A i \in DOMAIN last.out.val.data :
              IsNaN(last.out.val.data[i]) \/ InUnitInterval(last.out.val.data[i])

\* What the kernels do keep (not the statement of C15): with finite positive
\* parameters a distance >= 0 gives a value in [0, 1], 0.0 where the
\* exponential or the power underflows, and no position is negative.
C15_RangeOnRadialDistances ==
    ValidKernelCall(last) =>
        /\ last.out.ok
        /\ \A i \in DOMAIN last.out.val.data :
              /\ ~Lt0(last.out.val.data[i])
              /\ Ge0(InputData(last.x)[i]) =>
                    (Ge0(last.out.val.data[i]) /\ Le1(last.out.val.data[i]))

\* The divergence of C15: an exponential kernel with lam = 1 called on the
\* distance -1 returns a value above 1.
C15_Witness ==
    /\ ValidKernelCall(last)
    /\ last.cls = "ExponentialKernel"
    /\ last.params.val["lam"] = One
    /\ InputData(last.x) = <<Fin(-1, 0)>>
    /\ last.out.ok
    /\ Gt0(last.out.val.data[1])
    /\ ~Le1(last.out.val.data[1])

-----------------------------------------------------------------------------
(* C16 *)

\* C16: in the rectangular-hyperbola kernel with alpha > 0 and p > 0 the
\* output at a position is 1 / denominator where the denominator
\* 1 + (r / alpha)^p is > 0 and NaN where it is zero, negative or NaN; so no
\* position is infinite, negative, or a value the uninitialised buffer of the
\* division held.
C16_MaskedDivision ==
    (/\ NumericCall(last, {"RectangularHyperbolaKernel"})
     /\ \A f \in ParamValues(last.params) : IsPositive(f)) =>
        /\ last.out.ok
        /\ \A i \in DOMAIN InputData(last.x) :
              LET d == Denom(last.x, last.params.val, i)
                  y == last.out.val.data[i]
              IN  /\ Gt0(d) => y = Div(One, d)
                  /\ ~Gt0(d) => IsNaN(y)
                  /\ ~IsInf(y)
                  /\ ~Lt0(y)

\* A rectangular-hyperbola kernel with alpha = 1 and p = 1 was called on the
\* distances -2 and -1: the denominators are -1 and 0, and both positions of
\* the output are NaN.
C16_Witness ==
    /\ NumericCall(last, {"RectangularHyperbolaKernel"})
    /\ last.params.val["alpha"] = One
    /\ last.params.val["p"] = One
    /\ InputData(last.x) = <<Fin(-1, 1), Fin(-1, 0)>>
    /\ Denom(last.x, last.params.val, 1) = Fin(-1, 0)
    /\ Denom(last.x, last.params.val, 2) = Zero
    /\ last.out.ok
    /\ AllNaN(last.out.val)

-----------------------------------------------------------------------------
(* C17 *)

\* The standalone curve function of class cls called as f(x, **kw).
Standalone(cls, x, kw, junk) ==
    CASE cls = "PowerLawDecay" -> power_law_decay(x, kw["a"], kw["p"], kw["b"])
      [] cls = "LogGrowth" -> log_growth(x, kw["a"], kw["b"])
      [] cls = "ExponentialKernel" -> kernel_exponential(x, kw["lam"])
      [] cls = "GaussianKernel" -> kernel_gaussian(x, kw["sigma"])
      [] cls = "PowerLawKernel" -> kernel_powerlaw(x, kw["alpha"], kw["p"])
      [] cls = "RectangularHyperbolaKernel" ->
            kernel_rectangular_hyperbola(x, kw["alpha"], kw["p"], junk)
      [] cls = "ExpPowerKernel" -> kernel_exppower(x, kw["lam"], kw["q"])

\* C17: for every curve, every parameter set that converts (plain numbers or
\* holders) and every input, a call of the bound instance has the outcome of
\* the standalone function called with the same input and the coerced values
\* by name: the same array, or the same exception.
C17_BoundMatchesStandalone ==
    (last.op = "call" /\ last.params.ok) =>
        \E junk \in JunkFor(inst[last.i], last.x) :
            last.out = Standalone(last.cls, last.x, last.params.val, junk)

\* A power-law decay bound to two numbers and a holder was called on a list:
\* a = 2, p = 2, b is the holder's text "0.5" converted, and the outcome is
\* that of power_law_decay([0, -2], a=2, p=2, b=0.5): 8 and NaN.
C17_Witness ==
    /\ last.op = "call" /\ last.i = 1
    /\ last.cls = "PowerLawDecay"
    /\ inst[1].fields = <<Num(Fin(1, 1)), Num(Fin(1, 1)), Holder(1)>>
    /\ holder[1] = Str("0.5")
    /\ last.params.ok
    /\ last.params.val = [k \in {"a", "p", "b"} |->
                            IF k = "b" THEN Fin(1, -1) ELSE Fin(1, 1)]
    /\ last.x = List(<<Num(Zero), Num(Fin(-1, 1))>>)
    /\ last.out.ok
    /\ last.out.val.data = <<Fin(1, 3), NaN>>
    /\ last.out = power_law_decay(last.x, Fin(1, 1), Fin(1, 1), Fin(1, -1))

-----------------------------------------------------------------------------
(* C18 *)

\* A finished power-law kernel call with alpha > 0 and p > 0.
ValidPowerLawCall(op) ==
    /\ NumericCall(op, {"PowerLawKernel"})
    /\ \A f \in ParamValues(op.params) : IsPositive(f)

\* 1 + r / alpha at position i of the input of op
Base(op, i) == Add(One, Div(InputData(op.x)[i], op.params.val["alpha"]))

\* The value the kernel of op gives for the distance r alone.
Alone(op, r) ==
    kernel_powerlaw(NdIn(<<r>>), op.params.val["alpha"], op.params.val["p"]).val.data[1]

\* C18 as stated: with alpha > 0 and p > 0 a position of the power-law
\* kernel's output is NaN exactly when 1 + r / alpha <= 0 there.
C18_AsStated ==
    ValidPowerLawCall(last) =>
        /\ last.out.ok
        /\ \A i \in DOMAIN InputData(last.x) :
              IsNaN(last.out.val.data[i]) <=> Le0(Base(last, i))

\* C18: with alpha > 0 and p > 0 a position of the power-law kernel's output
\* is NaN exactly when 1 + r / alpha > 0 fails there: when it is <= 0 (even
\* where the power would be finite) and when it is NaN, which happens for a
\* NaN distance and for an infinite distance over an infinite alpha.  The
\* value at every position is the value the kernel gives for that distance
\* alone, whatever the other positions hold.
C18_ElementwiseMask ==
    ValidPowerLawCall(last) =>
        /\ last.out.ok
        /\ \A i \in DOMAIN InputData(last.x) :
              LET r == InputData(last.x)[i]
              IN  /\ IsNaN(last.out.val.data[i]) <=>
                        (Le0(Base(last, i)) \/ IsNaN(Base(last, i)))
                  /\ IsNaN(Base(last, i)) <=>
                        (IsNaN(r) \/ (IsInf(r) /\ IsInf(last.params.val["alpha"])))
                  /\ last.out.val.data[i] = Alone(last, r)

\* A power-law kernel with alpha = 1 and p = 2 was called on the distances -2
\* and 0: 1 + r / alpha is -1 at the first position, where the power
\* (-1)^(-2) is 1 and the output is NaN, and the second position is 1.
C18_Witness ==
    /\ ValidPowerLawCall(last)
    /\ last.params.val["alpha"] = One
    /\ last.params.val["p"] = Fin(1, 1)
    /\ InputData(last.x) = <<Fin(-1, 1), Zero>>
    /\ Base(last, 1) = Fin(-1, 0)
    /\ np_power(Base(last, 1), Neg(last.params.val["p"])) = One
    /\ last.out.ok
    /\ last.out.val.data = <<NaN, One>>

-----------------------------------------------------------------------------
(* C19 *)

\* The fields of the instance of op whose value does not convert, by position
\* in the declared order.
BadFields(op) ==
    {k \in DOMAIN inst[op.i].fields : ~Convertible(RawOf(inst[op.i].fields[k]))}

\* Some parameter of the call failed a kernel's global guard.
GuardFails(op) == op.params.ok /\ \E f \in ParamValues(op.params) : Le0(f)

\* C19: a call coerces the parameters in declared order before it looks at
\* the input.  With one or more unconvertible parameters it raises the error
\* of the first of them in declared order (the TypeError of _value, whose
\* message gives the type of that parameter's value, or OverflowError for an
\* int too large for a float), whatever the input and the other parameters
\* are.  With convertible parameters an unconvertible input raises the error
\* of np.asarray, also when a kernel's global guard fails; no array is
\* returned.
C19_ConversionOrder ==
    last.op = "call" =>
        /\ BadFields(last) # {} =>
              LET first == CHOOSE k \in BadFields(last) :
                              \A j \in BadFields(last) : k <= j
                  v == inst[last.i].fields[first]
              IN  /\ ~last.out.ok
                  /\ last.out = last.params
                  /\ IF RawOf(v).t = "bigint"
                     THEN last.out.exc = "OverflowError"
                     ELSE last.out = Raise("TypeError", TypeOf(v))
        /\ (BadFields(last) = {} /\ BadInput(last)) =>
              LET items == InputItems(last.x)
                  first == CHOOSE k \in DOMAIN items :
                              /\ BadItem(items[k])
                              /\ \A j \in 1..(k - 1) : ~BadItem(items[j])
              IN  /\ last.params.ok
                  /\ ~last.out.ok
                  /\ last.out.exc = ItemError(items[first])

\* PowerLawDecay(a="abc", p=None, b=-1) was called on [1.0, "abc"]: two
\* parameters and the input are unconvertible, and the error is the TypeError
\* of a, the first parameter.
C19_Witness ==
    /\ last.op = "call" /\ last.i = 1
    /\ inst[1] = Instance("PowerLawDecay", <<Str("abc"), None, Num(Fin(-1, 0))>>)
    /\ last.x = List(<<Num(One), Str("abc")>>)
    /\ BadFields(last) = {1, 2}
    /\ BadInput(last)
    /\ last.out = Raise("TypeError", "str")

\* An exponential kernel with lam = -1, which fails the global guard, was
\* called on [1.0, "abc"]: the call raises the ValueError of np.asarray
\* instead of returning NaN.
C19_GuardWitness ==
    /\ last.op = "call" /\ last.i = 1
    /\ inst[1] = Instance("ExponentialKernel", <<Num(Fin(-1, 0))>>)
    /\ GuardFails(last)
    /\ last.x = List(<<Num(One), Str("abc")>>)
    /\ ~last.out.ok
    /\ last.out.exc = "ValueError"

-----------------------------------------------------------------------------
(* C20 *)

\* The call at site s has coerced every parameter.
ParamsRead(s) ==
    /\ site[s].pc \in {"fn", "alloc", "divide", "where", "done"}
    /\ Len(site[s].vals) = Len(parameters(inst[1]))

\* The values the call at site s uses are the ones the parameters have under
\* the holder values h.
UsesSnapshot(s, h) ==
    \A k \in DOMAIN site[s].vals :
        value(parameters(inst[1])[k].v, h) = Ok(site[s].vals[k])

\* C20 as stated: the parameter values a call computes with are values the
\* holders had all together at one moment of the call, also when the holders
\* are set while the call reads them.
C20_AsStated ==
    \A s \in Sites : ParamsRead(s) => \E h \in held[s] : UsesSnapshot(s, h)

\* What a call does keep (not the statement of C20): each value it uses is one
\* its holder had at some moment of the call, and its outcome is that of the
\* curve function on the values it read.
C20_EachValueHeld ==
    \A s \in Sites :
        ParamsRead(s) =>
            /\ \A k \in DOMAIN site[s].vals :
                  \E h \in held[s] :
                      value(parameters(inst[1])[k].v, h) = Ok(site[s].vals[k])
            /\ site[s].pc = "done" =>
                  \E junk \in JunkFor(inst[1], site[s].x) :
                      site[s].out = fn(inst[1], site[s].x,
                                       ParamsDict(inst[1], site[s].vals), junk)

\* The divergence of C20: a power-law kernel bound to two holders read
\* alpha = 1, then both holders were set to 2, then it read p = 2; the call
\* returned the values of alpha = 1, p = 2, which the holders never had
\* together.
C20_Witness ==
    /\ inst[1] = Instance("PowerLawKernel", <<Holder(1), Holder(2)>>)
    /\ site[1].pc = "done"
    /\ site[1].vals = <<One, Fin(1, 1)>>
    /\ held[1] = {[h \in Holders |-> Num(One)],
                  [h \in Holders |-> IF h = 1 THEN Num(Fin(1, 1)) ELSE Num(One)],
                  [h \in Holders |-> Num(Fin(1, 1))]}
    /\ site[1].out = kernel_powerlaw(site[1].x, One, Fin(1, 1))

=============================================================================
